---------------------------- MODULE Spec2Model ----------------------------
(***************************************************************************)
(* Model of the Figma "HTML/SCSS export" plugin:                           *)
(*   - parseNodeName        (services/html-generator.ts)                   *)
(*   - generateNodeStyles   (services/scss-generator.ts)                   *)
(*   - generateSCSS         (services/scss-generator.ts)                   *)
(*   - generateElementData  (services/html-generator.ts)                   *)
(*   - generateHTML         (services/html-generator.ts)                   *)
(*   - figma.ui.onmessage   (main plugin file)                             *)
(*                                                                         *)
(* Text that originates in a layer name (labels, tags, classes, attribute  *)
(* keys and values, selectors) is a sequence of one-character strings, so  *)
(* that the regular expressions, split, slice and replace of the source    *)
(* are computed character by character.                                    *)
(***************************************************************************)
EXTENDS Integers, Sequences, FiniteSets, TLC

VARIABLES
    pc,        \* position of the operation under study
    name,      \* parseNodeName: the label passed in
    result,    \* parseNodeName: the ParsedNodeName returned
    node,      \* generateNodeStyles: the scene node passed in
    styles,    \* generateNodeStyles: the declarations returned
    elementData,  \* generateSCSS: the element tree passed in
    scss,      \* generateSCSS: what the call returned (or that it threw)
    scene,     \* plugin: figma.currentPage.children, the document
    calls,     \* plugin: the invocations of figma.ui.onmessage, in arrival order
    html       \* generateHTML: the markup returned

vars == <<pc, name, result, node, styles, elementData, scss, scene, calls, html>>

Null == [none |-> TRUE]

-----------------------------------------------------------------------------
(* Bounds of the label universe. *)

MaxLen == 4       \* every label over Alphabet up to this length
MaxNum == 3       \* node geometry and spacing range over 0 .. MaxNum halves
MaxNodes == 3     \* descriptors in an element tree handed to generateSCSS
MaxAffix == 1     \* text before / after a bracket group in structured labels
MaxValue == 2     \* length of an attribute value in structured labels

Alphabet == {"a", ".", "#", "[", "]", "=", "\""}

RECURSIVE StringsUpTo(_, _)
StringsUpTo(chars, n) ==
    IF n = 0 THEN {<<>>}
    ELSE LET shorter == StringsUpTo(chars, n - 1)
         IN  shorter \cup {Append(s, c) : s \in {t \in shorter : Len(t) = n - 1}, c \in chars}

-----------------------------------------------------------------------------
(* String primitives of the JavaScript runtime, on character sequences. *)

\* s.slice(from) with a 0-based, in-range `from`
Slice(s, from) == SubSeq(s, from + 1, Len(s))

\* s.startsWith(p)
StartsWith(s, p) == Len(s) >= Len(p) /\ SubSeq(s, 1, Len(p)) = p

\* smallest index i >= from with s[i] \in chars, or Len(s) + 1
RECURSIVE IndexOfAny(_, _, _)
IndexOfAny(s, chars, from) ==
    IF from > Len(s) THEN Len(s) + 1
    ELSE IF s[from] \in chars THEN from
    ELSE IndexOfAny(s, chars, from + 1)

\* s.split(sep) where sep matches exactly one character of `seps`
RECURSIVE Split(_, _)
Split(s, seps) ==
    LET i == IndexOfAny(s, seps, 1)
    IN  IF i > Len(s) THEN <<s>>
        ELSE <<SubSeq(s, 1, i - 1)>> \o Split(SubSeq(s, i + 1, Len(s)), seps)

\* s.replace(/c/g, '') for a single character c
RemoveAll(s, c) == SelectSeq(s, LAMBDA x : x # c)

\* smallest 1-based index at which m occurs in s, or 0
RECURSIVE IndexOfSub(_, _, _)
IndexOfSub(s, m, from) ==
    IF from + Len(m) - 1 > Len(s) THEN 0
    ELSE IF SubSeq(s, from, from + Len(m) - 1) = m THEN from
    ELSE IndexOfSub(s, m, from + 1)

\* s.replace(m, '') with a string pattern: the first occurrence only
ReplaceFirst(s, m) ==
    LET i == IndexOfSub(s, m, 1)
    IN  IF i = 0 THEN s
        ELSE SubSeq(s, 1, i - 1) \o SubSeq(s, i + Len(m), Len(s))

\* parts.join(sep)
RECURSIVE Join(_, _)
Join(parts, sep) ==
    IF Len(parts) = 0 THEN <<>>
    ELSE IF Len(parts) = 1 THEN parts[1]
    ELSE parts[1] \o sep \o Join(Tail(parts), sep)

-----------------------------------------------------------------------------
(* The two regular expressions of parseNodeName. *)

\* name.match(/\[(.*?)\]/g): the matched substrings, left to right.  A match
\* starts at the first "[" at or after `from` that has a "]" behind it and
\* ends at the nearest such "]".
RECURSIVE BracketMatches(_, _)
BracketMatches(s, from) ==
    LET i == IndexOfAny(s, {"["}, from)
        j == IndexOfAny(s, {"]"}, i + 1)
    IN  IF i > Len(s) \/ j > Len(s) THEN <<>>
        ELSE <<SubSeq(s, i, j)>> \o BracketMatches(s, j + 1)

\* End of the match of /([^=]+)="([^"]+)"/ starting exactly at i, or 0.
\* Both character classes are greedy and are followed by a character they
\* exclude, so the match at a given start is unique.
AttrMatchEnd(s, i) ==
    LET eq == IndexOfAny(s, {"="}, i)
        q  == IndexOfAny(s, {"\""}, eq + 2)
    IN  IF /\ i <= Len(s)
           /\ eq > i
           /\ eq + 1 <= Len(s)
           /\ s[eq + 1] = "\""
           /\ q > eq + 2
           /\ q <= Len(s)
        THEN q
        ELSE 0

\* attributesStr.match(/([^=]+)="([^"]+)"/g): the matched substrings
RECURSIVE AttrMatches(_, _)
AttrMatches(s, from) ==
    IF from > Len(s) THEN <<>>
    ELSE LET e == AttrMatchEnd(s, from)
         IN  IF e = 0 THEN AttrMatches(s, from + 1)
             ELSE <<SubSeq(s, from, e)>> \o AttrMatches(s, e + 1)

-----------------------------------------------------------------------------
(* Record<string, string>: key/value pairs in insertion order; assigning   *)
(* an existing key keeps its place.                                        *)

HasKey(attrs, k) == \E i \in 1..Len(attrs) : attrs[i].key = k

Get(attrs, k) ==
    LET i == CHOOSE i \in 1..Len(attrs) : attrs[i].key = k
    IN  attrs[i].value

Put(attrs, k, v) ==
    IF HasKey(attrs, k)
    THEN [i \in 1..Len(attrs) |->
            IF attrs[i].key = k THEN [key |-> k, value |-> v] ELSE attrs[i]]
    ELSE Append(attrs, [key |-> k, value |-> v])


-----------------------------------------------------------------------------
(* parseNodeName *)

Chars_div == <<"d", "i", "v">>
Chars_id == <<"i", "d">>

\* result.attributes[key] = value.replace(/"/g, '') for one matched attr,
\* with [key, value] = attr.split('=')
StoreAttr(attributes, attr) ==
    LET kv == Split(attr, {"="})
        key == kv[1]
        value == kv[2]
    IN  Put(attributes, key, RemoveAll(value, "\""))

RECURSIVE StoreAttrs(_, _)
StoreAttrs(attributes, attrs) ==
    IF Len(attrs) = 0 THEN attributes
    ELSE StoreAttrs(StoreAttr(attributes, Head(attrs)), Tail(attrs))

\* attributeMatches.forEach(match => ...): acc carries result.attributes and
\* cleanName
RECURSIVE ExtractAttributes(_, _)
ExtractAttributes(acc, attributeMatches) ==
    IF Len(attributeMatches) = 0 THEN acc
    ELSE LET match == Head(attributeMatches)
             attributesStr == SubSeq(match, 2, Len(match) - 1)
             attributes == AttrMatches(attributesStr, 1)
         IN  ExtractAttributes(
                 [attributes |-> StoreAttrs(acc.attributes, attributes),
                  cleanName |-> ReplaceFirst(acc.cleanName, match)],
                 Tail(attributeMatches))

\* if (parts[0]) result.tag = parts[0], 'div' otherwise
TagOf(parts) == IF parts[1] # <<>> THEN parts[1] ELSE Chars_div

\* ClassifyPart with the `else if (part)` test dropped
ClassifyPart_NoEmptyTest(r, part) ==
    IF StartsWith(part, <<"#">>)
    THEN [r EXCEPT !.attributes = Put(r.attributes, Chars_id, Slice(part, 1))]
    ELSE [r EXCEPT !.classes = Append(r.classes, part)]

\* idAndClasses.forEach(part => ...): r carries classes and attributes
ClassifyPart(r, part) ==
    IF StartsWith(part, <<"#">>)
    THEN [r EXCEPT !.attributes = Put(r.attributes, Chars_id, Slice(part, 1))]
    ELSE IF part # <<>>
    THEN [r EXCEPT !.classes = Append(r.classes, part)]
    ELSE r

RECURSIVE ClassifyParts(_, _)
ClassifyParts(r, idAndClasses) ==
    IF Len(idAndClasses) = 0 THEN r
    ELSE ClassifyParts(ClassifyPart(r, Head(idAndClasses)), Tail(idAndClasses))

parseNodeName(label) ==
    LET extracted == ExtractAttributes([attributes |-> <<>>, cleanName |-> label],
                                       BracketMatches(label, 1))
        cleanName == extracted.cleanName
        parts == Split(cleanName, {".", "#"})
        start == [tag |-> TagOf(parts), classes |-> <<>>,
                  attributes |-> extracted.attributes]
    IN  IF Len(parts) > 1
        THEN ClassifyParts(start, Split(Slice(cleanName, Len(parts[1])), {"."}))
        ELSE start

-----------------------------------------------------------------------------
(* Labels the parser is run on. *)

Label_divCardMain ==
    <<"d","i","v",".","c","a","r","d","#","m","a","i","n",
      "[","d","a","t","a","-","x","=","\"","1","\"","]">>

Label_docComment ==
    <<"d","i","v",".","c","l","a","s","s","1","#","m","y","I","d",
      ".","c","l","a","s","s","2",
      "[","a","t","t","r","1","=","\"","v","a","l","u","e","1","\"","]">>

\* pre [key="value"] post
BracketGroup(key, value) == <<"[">> \o key \o <<"=", "\"">> \o value \o <<"\"", "]">>

AffixChars == {"a", ".", "#"}
ValueChars == {"a", "=", ".", "#"}
GroupKey == <<"k">>

Affixes == StringsUpTo(AffixChars, MaxAffix)
GroupValues == StringsUpTo(ValueChars, MaxValue) \ {<<>>}

GroupLabels(affixes, values) ==
    {pre \o BracketGroup(GroupKey, value) \o post :
        pre \in affixes, value \in values, post \in affixes}

Labels(maxLen) ==
    StringsUpTo(Alphabet, maxLen) \cup GroupLabels(Affixes, GroupValues)
      \cup {Label_divCardMain, Label_docComment}

-----------------------------------------------------------------------------
(* Specification of the parser alone: a label is drawn, then parsed. *)

ParseInit ==
    /\ pc = "start"
    /\ name \in Labels(MaxLen)
    /\ result = Null
    /\ node = Null
    /\ styles = Null
    /\ elementData = Null
    /\ scss = Null
    /\ scene = Null
    /\ calls = Null
    /\ html = Null

Parse ==
    /\ pc = "start"
    /\ result' = parseNodeName(name)
    /\ pc' = "parsed"
    /\ UNCHANGED <<name, node, styles, elementData, scss, scene, calls, html>>

ParseNext == Parse

SpecParse == ParseInit /\ [][ParseNext]_vars


-----------------------------------------------------------------------------
(* Claims about parseNodeName (checked under SpecParse). *)

\* the attribute map as an unordered set of key/value pairs
AsMap(attrs) == {attrs[i] : i \in 1..Len(attrs)}

Chars_card == <<"c","a","r","d">>
Chars_main == <<"m","a","i","n">>
Chars_dataX == <<"d","a","t","a","-","x">>
Chars_class1 == <<"c","l","a","s","s","1">>
Chars_class2 == <<"c","l","a","s","s","2">>
Chars_myId == <<"m","y","I","d">>
Chars_attr1 == <<"a","t","t","r","1">>
Chars_value1 == <<"v","a","l","u","e","1">>

\* C2: a `#id` token directly after a class token is the id, not part of the
\* class: the two documented labels parse to tag div, classes [card] /
\* [class1, class2] and the attributes {id, data-x} / {id, attr1}; no
\* returned class contains the character #.
C2_IdAfterClassIsId ==
    pc = "parsed" =>
        /\ name = Label_divCardMain =>
              /\ result.tag = Chars_div
              /\ result.classes = <<Chars_card>>
              /\ AsMap(result.attributes) =
                     {[key |-> Chars_id, value |-> Chars_main],
                      [key |-> Chars_dataX, value |-> <<"1">>]}
        /\ name = Label_docComment =>
              /\ result.tag = Chars_div
              /\ result.classes = <<Chars_class1, Chars_class2>>
              /\ AsMap(result.attributes) =
                     {[key |-> Chars_id, value |-> Chars_myId],
                      [key |-> Chars_attr1, value |-> Chars_value1]}
        /\ \A i \in 1..Len(result.classes) :
              \A j \in 1..Len(result.classes[i]) : result.classes[i][j] # "#"

\* C8: parseNodeName is total: for every label it returns a ParsedNodeName
\* whose tag is non-empty and whose classes are all non-empty; the empty
\* label gives tag div, no classes and no attributes.
C8_ParseTotal ==
    pc = "parsed" =>
        /\ DOMAIN result = {"tag", "classes", "attributes"}
        /\ result.tag # <<>>
        /\ \A i \in 1..Len(result.classes) : result.classes[i] # <<>>
        /\ name = <<>> =>
              result = [tag |-> Chars_div, classes |-> <<>>, attributes |-> <<>>]

\* a malformed label (repeated and trailing separators, an empty id) has
\* been parsed to the defaults
C8_Witness ==
    /\ pc = "parsed"
    /\ name = <<".", ".", "#", ".">>
    /\ result.tag = Chars_div
    /\ result.classes = <<>>

\* C9: for a bracket group [key="value"] whose value is non-empty and holds
\* neither " nor ], attributes[key] is the whole value (also when it holds
\* =, . or #), and the group is removed before the tag, the classes and the
\* id are parsed: they are those of the label without the group.
C9_AttributeValueVerbatim ==
    pc = "parsed" =>
        \A pre \in Affixes, value \in GroupValues, post \in Affixes :
            name = pre \o BracketGroup(GroupKey, value) \o post =>
                LET bare == parseNodeName(pre \o post)
                IN  /\ HasKey(result.attributes, GroupKey)
                    /\ Get(result.attributes, GroupKey) = value
                    /\ result.tag = bare.tag
                    /\ result.classes = bare.classes
                    /\ AsMap(result.attributes) \ {[key |-> GroupKey, value |-> value]}
                           = AsMap(bare.attributes)


-----------------------------------------------------------------------------
(* Numbers and declarations of the style mapper.                           *)
(*                                                                         *)
(* A JavaScript number is held as a count of halves (3 stands for 1.5), so *)
(* that Math.round has something to round.  A declaration string such as   *)
(* `padding: 1px 0.5px 0px 0px` is held as its property, the shape of its  *)
(* value and the numbers printed in it, the numbers again in halves: a     *)
(* number printed by `${Math.round(v)}` is a whole number, one printed by  *)
(* `${v}` is v itself.                                                     *)

Whole(n) == 2 * n
IsWhole(h) == h % 2 = 0

\* Math.round: the nearest integer, halves towards +infinity
Round(h) == 2 * ((h + 1) \div 2)

\* Math.round((w / pw) * 100), pw > 0
RoundPercent(w, pw) == 2 * ((200 * w + pw) \div (2 * pw))

Keyword(prop, text) == [prop |-> prop, kind |-> "keyword", text |-> text, nums |-> <<>>]
Px(prop, nums) == [prop |-> prop, kind |-> "px", text |-> "", nums |-> nums]
Percent(prop, n) == [prop |-> prop, kind |-> "%", text |-> "", nums |-> <<n>>]
Number(prop, n) == [prop |-> prop, kind |-> "number", text |-> "", nums |-> <<n>>]
Quoted(prop, text) == [prop |-> prop, kind |-> "quoted", text |-> text, nums |-> <<>>]
Rgba(prop, nums) == [prop |-> prop, kind |-> "rgba", text |-> "", nums |-> nums]
\* the empty string ''
EmptyString == [prop |-> "", kind |-> "empty", text |-> "", nums |-> <<>>]

\* figma.mixed, the symbol a text property holds when it is not uniform
Mixed == [mixed |-> TRUE]
IsSymbol(v) == "mixed" \in DOMAIN v

\* String.prototype.toLowerCase on the enumeration values of the text facet
toLowerCase(text) ==
    CASE text = "LEFT" -> "left"
      [] text = "CENTER" -> "center"
      [] text = "RIGHT" -> "right"
      [] text = "JUSTIFIED" -> "justified"
      [] text = "NONE" -> "none"
      [] text = "UNDERLINE" -> "underline"
      [] text = "STRIKETHROUGH" -> "strikethrough"

-----------------------------------------------------------------------------
(* Style mapper (services/scss-generator.ts).  A scene node is a record;   *)
(* `'f' in node` is "f" \in DOMAIN node.                                   *)

isTextNode(n) == n.type = "TEXT"

AutoLayoutFields ==
    {"layoutMode", "primaryAxisSizingMode", "counterAxisSizingMode",
     "primaryAxisAlignItems", "counterAxisAlignItems", "layoutAlign",
     "itemSpacing", "paddingTop", "paddingRight", "paddingBottom", "paddingLeft"}

isAutoLayoutNode(n) == \A f \in AutoLayoutFields : f \in DOMAIN n

FillsHorizontally(n) ==
    "layoutSizingHorizontal" \in DOMAIN n /\ n.layoutSizingHorizontal = "FILL"

widthStrategies(layoutMode, n) ==
    IF layoutMode = "HORIZONTAL"
    THEN IF n.primaryAxisSizingMode = "AUTO" THEN Keyword("width", "fit-content")
         ELSE IF FillsHorizontally(n) THEN Percent("width", Whole(100))
         ELSE IF n.layoutAlign = "STRETCH" THEN Percent("width", Whole(100))
         ELSE Px("width", <<Round(n.width)>>)
    ELSE IF n.counterAxisSizingMode = "AUTO" THEN Keyword("width", "fit-content")
         ELSE IF FillsHorizontally(n) THEN Percent("width", Whole(100))
         ELSE IF n.layoutAlign = "STRETCH" THEN Percent("width", Whole(100))
         ELSE Px("width", <<Round(n.width)>>)

primaryAxisAlignMap ==
    [MIN |-> Keyword("justify-content", "flex-start"),
     CENTER |-> Keyword("justify-content", "center"),
     MAX |-> Keyword("justify-content", "flex-end"),
     SPACE_BETWEEN |-> Keyword("justify-content", "space-between")]

counterAxisAlignMap ==
    [MIN |-> Keyword("align-items", "flex-start"),
     CENTER |-> Keyword("align-items", "center"),
     MAX |-> Keyword("align-items", "flex-end"),
     BASELINE |-> Keyword("align-items", "baseline")]

layoutAlignMap ==
    [MIN |-> Keyword("align-self", "flex-start"),
     CENTER |-> Keyword("align-self", "center"),
     MAX |-> Keyword("align-self", "flex-end"),
     STRETCH |-> EmptyString,
     INHERIT |-> Keyword("align-self", "inherit")]

\* one entry of the constraints table of addSizeConstraints
SizeConstraint(n, prop, style) ==
    IF prop \in DOMAIN n /\ n[prop] > 0 THEN <<Px(style, <<Round(n[prop])>>)>> ELSE <<>>

addSizeConstraints(n, st) ==
    st \o SizeConstraint(n, "minWidth", "min-width")
       \o SizeConstraint(n, "maxWidth", "max-width")
       \o SizeConstraint(n, "minHeight", "min-height")
       \o SizeConstraint(n, "maxHeight", "max-height")

wrapMap == [WRAP |-> "wrap", NO_WRAP |-> "nowrap"]

addAutoLayoutStyles(n, st) ==
    IF ~isAutoLayoutNode(n) THEN st
    ELSE st
      \o <<Keyword("display", "flex")>>
      \o <<Keyword("flex-direction", IF n.layoutMode = "HORIZONTAL" THEN "row" ELSE "column")>>
      \o (IF "layoutWrap" \in DOMAIN n
          THEN <<Keyword("flex-wrap", wrapMap[n.layoutWrap])>> ELSE <<>>)
      \o (IF n.primaryAxisAlignItems \in DOMAIN primaryAxisAlignMap
          THEN <<primaryAxisAlignMap[n.primaryAxisAlignItems]>> ELSE <<>>)
      \o (IF n.counterAxisAlignItems \in DOMAIN counterAxisAlignMap
          THEN <<counterAxisAlignMap[n.counterAxisAlignItems]>> ELSE <<>>)
      \o (IF "layoutGrow" \in DOMAIN n /\ n.layoutGrow # 0
          THEN <<Number("flex-grow", n.layoutGrow)>> ELSE <<>>)
      \o (IF "layoutShrink" \in DOMAIN n
          THEN <<Number("flex-shrink", n.layoutShrink)>> ELSE <<>>)
      \o (IF "layoutAlign" \in DOMAIN n /\ n.layoutAlign \in DOMAIN layoutAlignMap
          THEN <<layoutAlignMap[n.layoutAlign]>> ELSE <<>>)
      \o (IF n.itemSpacing > 0 THEN <<Px("gap", <<n.itemSpacing>>)>> ELSE <<>>)
      \o (IF \E v \in {n.paddingTop, n.paddingRight, n.paddingBottom, n.paddingLeft} : v > 0
          THEN <<Px("padding", <<n.paddingTop, n.paddingRight, n.paddingBottom, n.paddingLeft>>)>>
          ELSE <<>>)

\* typeof letterSpacing === 'object' ? letterSpacing.value : letterSpacing
\* (a plain number is held as [number |-> v])
LetterSpacingOf(n) ==
    IF "value" \in DOMAIN n.letterSpacing THEN n.letterSpacing.value
    ELSE n.letterSpacing.number

addTextStyles(n, st) ==
    st
      \o (IF ~IsSymbol(n.fontSize) THEN <<Px("font-size", <<n.fontSize.value>>)>> ELSE <<>>)
      \o (IF ~IsSymbol(n.fontWeight) THEN <<Number("font-weight", n.fontWeight.value)>> ELSE <<>>)
      \o (IF ~IsSymbol(n.fontName) /\ n.fontName.family # ""
          THEN <<Quoted("font-family", n.fontName.family)>> ELSE <<>>)
      \o (IF ~IsSymbol(n.letterSpacing) /\ LetterSpacingOf(n) # 0
          THEN <<Px("letter-spacing", <<LetterSpacingOf(n)>>)>> ELSE <<>>)
      \o (IF ~IsSymbol(n.lineHeight) /\ "value" \in DOMAIN n.lineHeight
          THEN <<Px("line-height", <<n.lineHeight.value>>)>> ELSE <<>>)
      \o (IF ~IsSymbol(n.textAlignHorizontal)
          THEN <<Keyword("text-align", toLowerCase(n.textAlignHorizontal.value))>> ELSE <<>>)
      \o (IF ~IsSymbol(n.textDecoration)
          THEN <<Keyword("text-decoration", toLowerCase(n.textDecoration.value))>> ELSE <<>>)

\* node.fills is a paint list, held as [array |-> <<paint, ...>>], or
\* figma.mixed; Array.isArray tells them apart
Array(paints) == [array |-> paints]
IsArray(v) == "array" \in DOMAIN v

\* the rgba(...) value of a solid paint
RgbaOf(fill) ==
    <<Round(fill.color.r * 255), Round(fill.color.g * 255), Round(fill.color.b * 255),
      IF "opacity" \in DOMAIN fill THEN fill.opacity ELSE Whole(1)>>

\* addColorStyles reading the first SOLID paint of the list, not fills[0]
addColorStyles_FirstSolid(n, st) ==
    IF ~("fills" \in DOMAIN n) \/ ~IsArray(n.fills) THEN st
    ELSE LET solid == SelectSeq(n.fills.array, LAMBDA f : f.type = "SOLID")
         IN  IF Len(solid) = 0 \/ ~solid[1].visible THEN st
             ELSE IF isTextNode(n) THEN Append(st, Rgba("color", RgbaOf(solid[1])))
             ELSE Append(st, Rgba("background-color", RgbaOf(solid[1])))

addColorStyles(n, st) ==
    IF ~("fills" \in DOMAIN n) \/ ~IsArray(n.fills) \/ Len(n.fills.array) = 0 THEN st
    ELSE LET fill == n.fills.array[1]
         IN  IF fill.type # "SOLID" \/ ~fill.visible THEN st
             ELSE IF isTextNode(n) THEN Append(st, Rgba("color", RgbaOf(fill)))
             ELSE Append(st, Rgba("background-color", RgbaOf(fill)))

\* the size branch of generateNodeStyles
SizeStyles(n) ==
    IF ~("width" \in DOMAIN n /\ "height" \in DOMAIN n) THEN <<>>
    ELSE IF isAutoLayoutNode(n)
    THEN LET w == IF n.layoutMode \in {"HORIZONTAL", "VERTICAL"}
                  THEN <<widthStrategies(n.layoutMode, n)>> ELSE <<>>
             isAuto == IF n.layoutMode = "VERTICAL"
                       THEN n.primaryAxisSizingMode = "AUTO"
                       ELSE n.counterAxisSizingMode = "AUTO"
             h == IF isAuto THEN Keyword("height", "fit-content")
                  ELSE Px("height", <<Round(n.height)>>)
         IN  addAutoLayoutStyles(n, addSizeConstraints(n, w \o <<h>>))
    ELSE IF n.type = "TEXT"
    THEN addTextStyles(n, addSizeConstraints(n,
            <<Keyword("width", "auto"), Keyword("height", "fit-content")>>))
    ELSE LET hasParentFrame == "parent" \in DOMAIN n /\ n.parent.type = "FRAME"
             isImage == /\ n.type = "RECTANGLE"
                        /\ "fills" \in DOMAIN n
                        /\ IsArray(n.fills)
                        /\ Len(n.fills.array) > 0
                        /\ n.fills.array[1].type = "IMAGE"
             w == IF hasParentFrame
                  THEN Percent("width", RoundPercent(n.width, n.parent.width))
                  ELSE Px("width", <<Round(n.width)>>)
             h == IF isImage THEN Keyword("height", "auto")
                  ELSE Px("height", <<Round(n.height)>>)
         IN  addSizeConstraints(n, <<w, h>>)

\* the position branch of generateNodeStyles
PositionStyles(n) ==
    IF "layoutPositioning" \in DOMAIN n /\ n.layoutPositioning = "ABSOLUTE"
    THEN <<Keyword("position", "absolute"),
           Px("left", <<Round(n.x)>>),
           Px("top", <<Round(n.y)>>)>>
    ELSE <<>>

generateNodeStyles(n) == addColorStyles(n, SizeStyles(n)) \o PositionStyles(n)


-----------------------------------------------------------------------------
(* Scene nodes the style mapper is run on.  Each family varies the facets  *)
(* one branch of the mapper reads and keeps the others at a base value.    *)

Nums == 0..MaxNum
PosNums == 1..MaxNum

\* `base` with the fields of `upd` set
With(base, upd) == upd @@ base

PageRef == [type |-> "PAGE"]
GroupRef == [type |-> "GROUP"]
FrameRef(w) == [type |-> "FRAME", width |-> w]

FrameBase ==
    [type |-> "FRAME", width |-> 3, height |-> 3, x |-> 0, y |-> 0,
     layoutMode |-> "HORIZONTAL",
     primaryAxisSizingMode |-> "FIXED", counterAxisSizingMode |-> "FIXED",
     primaryAxisAlignItems |-> "MIN", counterAxisAlignItems |-> "MIN",
     layoutAlign |-> "INHERIT", layoutGrow |-> 0, layoutWrap |-> "NO_WRAP",
     layoutSizingHorizontal |-> "FIXED", layoutPositioning |-> "AUTO",
     itemSpacing |-> 0,
     paddingTop |-> 0, paddingRight |-> 0, paddingBottom |-> 0, paddingLeft |-> 0,
     fills |-> Array(<<>>), parent |-> PageRef]

TextBase ==
    [type |-> "TEXT", width |-> 3, height |-> 3, x |-> 0, y |-> 0,
     layoutAlign |-> "INHERIT", layoutGrow |-> 0, layoutPositioning |-> "AUTO",
     fontSize |-> [value |-> Whole(14)], fontWeight |-> [value |-> Whole(400)],
     fontName |-> [family |-> "Inter"],
     letterSpacing |-> [value |-> 0, unit |-> "PIXELS"],
     lineHeight |-> [unit |-> "AUTO"],
     textAlignHorizontal |-> [value |-> "LEFT"],
     textDecoration |-> [value |-> "NONE"],
     fills |-> Array(<<>>), parent |-> PageRef]

RectangleBase ==
    [type |-> "RECTANGLE", width |-> 3, height |-> 3, x |-> 0, y |-> 0,
     layoutAlign |-> "INHERIT", layoutGrow |-> 0, layoutPositioning |-> "AUTO",
     fills |-> Array(<<>>), parent |-> PageRef]

\* a group has no paint facet
GroupBase ==
    [type |-> "GROUP", width |-> 3, height |-> 3, x |-> 0, y |-> 0,
     layoutAlign |-> "INHERIT", layoutGrow |-> 0, layoutPositioning |-> "AUTO",
     parent |-> PageRef]

LayoutModes == {"NONE", "HORIZONTAL", "VERTICAL"}
SizingModes == {"FIXED", "AUTO"}
LayoutAligns == {"MIN", "CENTER", "MAX", "STRETCH", "INHERIT"}

FramesBox ==
    {With(FrameBase,
          [layoutMode |-> m, primaryAxisSizingMode |-> p, counterAxisSizingMode |-> c,
           layoutAlign |-> a, layoutSizingHorizontal |-> h, width |-> w, height |-> w]) :
        m \in LayoutModes, p \in SizingModes, c \in SizingModes, a \in LayoutAligns,
        h \in {"FIXED", "FILL"}, w \in PosNums}

FramesAlign ==
    {With(FrameBase,
          [layoutMode |-> m, primaryAxisAlignItems |-> p, counterAxisAlignItems |-> c,
           layoutWrap |-> w, layoutGrow |-> g]) :
        m \in LayoutModes, p \in {"MIN", "CENTER", "MAX", "SPACE_BETWEEN"},
        c \in {"MIN", "CENTER", "MAX", "BASELINE"}, w \in {"NO_WRAP", "WRAP"},
        g \in {0, Whole(1)}}

FramesSpacing ==
    {With(FrameBase,
          [itemSpacing |-> g, paddingTop |-> t, paddingRight |-> r,
           paddingBottom |-> b, paddingLeft |-> l]) :
        g \in Nums, t \in Nums, r \in Nums, b \in Nums, l \in Nums}

\* min/max sizes: null (the field is left out) or a positive number
Constrained(base) ==
    {With(base, [minWidth |-> a, maxHeight |-> b]) : a \in PosNums, b \in PosNums}
      \cup {With(base, [maxWidth |-> a]) : a \in PosNums}
      \cup {With(base, [minHeight |-> a]) : a \in PosNums}

Solid(r, g, b) == [type |-> "SOLID", visible |-> TRUE, color |-> [r |-> r, g |-> g, b |-> b]]
Red == Solid(2, 0, 0)
Grey == Solid(1, 1, 1)
SolidPaints ==
    {With(c, [visible |-> v]) : c \in {Red, Grey}, v \in BOOLEAN}
      \cup {With(c, [visible |-> v, opacity |-> o]) :
              c \in {Red, Grey}, v \in BOOLEAN, o \in {1, 2}}
ImagePaint == [type |-> "IMAGE", visible |-> TRUE, scaleMode |-> "FILL"]
GradientPaint == [type |-> "GRADIENT_LINEAR", visible |-> TRUE]
Paints == SolidPaints \cup {ImagePaint, GradientPaint}

FillLists ==
    {Array(<<>>)} \cup {Array(<<p>>) : p \in Paints}
      \cup {Array(<<p, q>>) : p \in Paints, q \in Paints}

Painted ==
    {With(base, [fills |-> f]) : base \in {FrameBase, TextBase, RectangleBase}, f \in FillLists}
      \cup {With(TextBase, [fills |-> Mixed])}

Positioned ==
    {With(base, [layoutPositioning |-> p, x |-> x, y |-> y]) :
        base \in {FrameBase, TextBase, RectangleBase, GroupBase},
        p \in {"AUTO", "ABSOLUTE"}, x \in (0 - MaxNum)..MaxNum, y \in Nums}

FontSizes == {Mixed} \cup {[value |-> v] : v \in PosNums \cup {Whole(14)}}

TextsFont ==
    {With(TextBase,
          [fontSize |-> s, fontWeight |-> w, fontName |-> f,
           textAlignHorizontal |-> [value |-> a], textDecoration |-> d]) :
        s \in FontSizes, w \in {Mixed, [value |-> Whole(400)]},
        f \in {Mixed, [family |-> "Inter"]},
        a \in {"LEFT", "CENTER", "RIGHT", "JUSTIFIED"},
        d \in {Mixed, [value |-> "NONE"], [value |-> "UNDERLINE"]}}

TextsSpacing ==
    {With(TextBase, [fontSize |-> s, letterSpacing |-> l, lineHeight |-> h]) :
        s \in FontSizes,
        l \in {Mixed} \cup {[value |-> v, unit |-> "PIXELS"] : v \in (0 - 1)..MaxNum},
        h \in {Mixed, [unit |-> "AUTO"]}
                \cup {[value |-> v, unit |-> u] : v \in PosNums, u \in {"PIXELS", "PERCENT"}}}

Leaves ==
    {With(base, [width |-> w, height |-> h, parent |-> p]) :
        base \in {RectangleBase, GroupBase, With(RectangleBase, [fills |-> Array(<<ImagePaint>>)])},
        w \in PosNums, h \in PosNums,
        p \in {PageRef, GroupRef} \cup {FrameRef(pw) : pw \in PosNums}}

\* the text node of the documented example: font size 14, a visible solid
\* red fill at opacity 0.5
ExampleText == With(TextBase, [fills |-> Array(<<With(Red, [opacity |-> 1])>>)])

Nodes ==
    FramesBox \cup FramesAlign \cup FramesSpacing
      \cup Constrained(FrameBase) \cup Constrained(TextBase) \cup Constrained(RectangleBase)
      \cup Painted \cup Positioned \cup TextsFont \cup TextsSpacing \cup Leaves
      \cup {ExampleText}

-----------------------------------------------------------------------------
(* Specification of the style mapper alone: a node is drawn, then mapped. *)

StylesInit ==
    /\ pc = "start"
    /\ node \in Nodes
    /\ styles = Null
    /\ name = Null
    /\ result = Null
    /\ elementData = Null
    /\ scss = Null
    /\ scene = Null
    /\ calls = Null
    /\ html = Null

GenerateNodeStyles ==
    /\ pc = "start"
    /\ styles' = generateNodeStyles(node)
    /\ pc' = "styled"
    /\ UNCHANGED <<name, result, node, elementData, scss, scene, calls, html>>

StylesNext == GenerateNodeStyles

SpecStyles == StylesInit /\ [][StylesNext]_vars


-----------------------------------------------------------------------------
(* Claims about generateNodeStyles (checked under SpecStyles). *)

Range(seq) == {seq[i] : i \in 1..Len(seq)}

\* C6: every px declaration carries whole numbers, each the Math.round of
\* the node property it comes from: so for width, height, the min/max
\* sizes, left and top, and also for gap, padding, font-size,
\* letter-spacing and line-height.
C6_PxValuesRounded ==
    pc = "styled" =>
        /\ \A d \in Range(styles) :
              d.kind = "px" => \A j \in 1..Len(d.nums) : IsWhole(d.nums[j])
        /\ isAutoLayoutNode(node) /\ node.itemSpacing > 0 =>
              Px("gap", <<Round(node.itemSpacing)>>) \in Range(styles)
        /\ isTextNode(node) /\ ~IsSymbol(node.fontSize) =>
              Px("font-size", <<Round(node.fontSize.value)>>) \in Range(styles)

\* C7: for an auto-layout container layoutAlign MIN, CENTER, MAX, INHERIT
\* give align-self flex-start, center, flex-end, inherit; STRETCH gives no
\* element at all, so every element of the list is a non-empty
\* `property: value` declaration.
C7_StretchOmitted ==
    pc = "styled" /\ isAutoLayoutNode(node) =>
        /\ node.layoutAlign = "MIN" => Keyword("align-self", "flex-start") \in Range(styles)
        /\ node.layoutAlign = "CENTER" => Keyword("align-self", "center") \in Range(styles)
        /\ node.layoutAlign = "MAX" => Keyword("align-self", "flex-end") \in Range(styles)
        /\ node.layoutAlign = "INHERIT" => Keyword("align-self", "inherit") \in Range(styles)
        /\ node.layoutAlign = "STRETCH" =>
              \A d \in Range(styles) : d.prop # "align-self"
        /\ \A d \in Range(styles) : d.prop # "" /\ d.kind # "empty"

ColourDeclarations(st) ==
    SelectSeq(st, LAMBDA d : d.prop \in {"color", "background-color"})

FirstFillIsVisibleSolid(n) ==
    /\ "fills" \in DOMAIN n
    /\ IsArray(n.fills)
    /\ Len(n.fills.array) > 0
    /\ n.fills.array[1].type = "SOLID"
    /\ n.fills.array[1].visible

DeclarationsOf(st, prop) == SelectSeq(st, LAMBDA d : d.prop = prop)

\* C14: for every node with geometry that exposes the layout-container
\* facets, whatever its layoutMode (HORIZONTAL, VERTICAL or NONE), the list
\* starts with a `width` declaration followed by a `height` declaration,
\* each the only one of its property, and `flex-direction` is `row` exactly
\* for HORIZONTAL and `column` exactly for VERTICAL.
C14_WidthThenHeightLead ==
    (/\ pc = "styled"
     /\ "width" \in DOMAIN node
     /\ "height" \in DOMAIN node
     /\ isAutoLayoutNode(node))
    =>
    (/\ Len(styles) >= 2
     /\ styles[1].prop = "width"
     /\ styles[2].prop = "height"
     /\ Len(DeclarationsOf(styles, "width")) = 1
     /\ Len(DeclarationsOf(styles, "height")) = 1
     /\ Keyword("flex-direction", "row") \in Range(styles) <=> node.layoutMode = "HORIZONTAL"
     /\ Keyword("flex-direction", "column") \in Range(styles) <=> node.layoutMode = "VERTICAL")


-----------------------------------------------------------------------------
(* Stylesheet emitter: generateSCSS (services/scss-generator.ts).          *)
(*                                                                         *)
(* An element descriptor is [tag, classes, attributes, children] with an   *)
(* optional _node.  A Set<string> is a sequence without repetitions, in    *)
(* insertion order.  The text returned is held as the sequence of its      *)
(* blocks, each the selector and the declarations between its braces.      *)

Chars_picture == <<"p","i","c","t","u","r","e">>
Chars_jsPrefix == <<"j","s","-">>
Chars_constructor == <<"c","o","n","s","t","r","u","c","t","o","r">>
Chars_toString == <<"t","o","S","t","r","i","n","g">>
Chars_valueOf == <<"v","a","l","u","e","O","f">>

\* Names that `styles = {}` inherits from Object.prototype: styles[name] is
\* then not a Set, and .add or the spread of it raises a TypeError.
ObjectPrototypeKeys == {Chars_constructor, Chars_toString, Chars_valueOf}

HasNode(element) == "_node" \in DOMAIN element

\* Set.prototype.add without the membership test
SetAdd_Duplicating(set, x) == Append(set, x)

\* Set.prototype.add
SetAdd(set, x) == IF x \in Range(set) THEN set ELSE Append(set, x)

\* nodeStyles.forEach(style => set.add(style))
RECURSIVE AddAll(_, _)
AddAll(set, items) ==
    IF Len(items) = 0 THEN set
    ELSE AddAll(SetAdd(set, Head(items)), Tail(items))

\* [...new Set(selectors)]
Unique(seq) == AddAll(<<>>, seq)

\* classes.filter(cls => !cls.startsWith('js-'))
NotJs(classes) == SelectSeq(classes, LAMBDA cls : ~StartsWith(cls, Chars_jsPrefix))

\* currentSelector of collectSelectorsAndStyles
WalkSelector(element) ==
    IF "classes" \in DOMAIN element /\ Len(element.classes) > 0
    THEN <<".">> \o Join(NotJs(element.classes), <<".">>)
    ELSE IF element.tag # Chars_picture THEN element.tag ELSE <<>>

\* currentSelector of addPositionRelative
PassSelector(element) ==
    IF "classes" \in DOMAIN element /\ Len(element.classes) > 0
    THEN <<".">> \o Join(NotJs(element.classes), <<".">>)
    ELSE IF element.tag # Chars_picture THEN element.tag ELSE <<>>

\* childSelector of addPositionRelative
ChildSelector(child) ==
    IF "classes" \in DOMAIN child /\ Len(child.classes) > 0
    THEN <<".">> \o Join(NotJs(child.classes), <<".">>)
    ELSE IF child.tag # Chars_picture THEN child.tag ELSE <<>>

PositionAbsolute == Keyword("position", "absolute")
PositionRelative == Keyword("position", "relative")

\* selectors, styles and absoluteElements as generateSCSS creates them
EmptyCollection ==
    [selectors |-> <<>>, styles |-> <<>>, absoluteElements |-> <<>>, threw |-> FALSE]

\* the body of collectSelectorsAndStyles for one element, children excluded
CollectElement(element, acc) ==
    LET currentSelector == WalkSelector(element)
    IN  IF currentSelector = <<>> THEN acc
        ELSE IF currentSelector \in ObjectPrototypeKeys
        THEN [acc EXCEPT !.threw = TRUE]
        ELSE LET created ==
                   IF currentSelector \in DOMAIN acc.styles THEN acc.styles
                   ELSE acc.styles @@ (currentSelector :> <<>>)
                 nodeStyles ==
                   IF HasNode(element) THEN generateNodeStyles(element._node) ELSE <<>>
             IN  [acc EXCEPT
                    !.selectors = Append(@, currentSelector),
                    !.styles = [created EXCEPT ![currentSelector] = AddAll(@, nodeStyles)],
                    !.absoluteElements =
                        IF PositionAbsolute \in Range(nodeStyles)
                        THEN SetAdd(@, currentSelector) ELSE @]

RECURSIVE collectSelectorsAndStyles(_, _)
RECURSIVE CollectChildren(_, _)

\* element.children?.forEach(child => collectSelectorsAndStyles(child))
CollectChildren(children, acc) ==
    IF Len(children) = 0 \/ acc.threw THEN acc
    ELSE CollectChildren(Tail(children), collectSelectorsAndStyles(Head(children), acc))

collectSelectorsAndStyles(element, acc) ==
    CollectChildren(element.children, CollectElement(element, acc))

RECURSIVE addPositionRelative(_, _, _)
RECURSIVE ScanChildren(_, _, _, _)

\* the loop without its `return true`: every matching parent is written to
ScanChildren_Exhaustive(element, children, absoluteSelector, st) ==
    IF Len(children) = 0 THEN [found |-> FALSE, styles |-> st]
    ELSE LET child == Head(children)
             currentSelector == PassSelector(element)
             written ==
                 IF /\ ChildSelector(child) = absoluteSelector
                    /\ currentSelector # <<>>
                    /\ HasNode(element)
                    /\ element._node.type = "FRAME"
                 THEN [st EXCEPT ![currentSelector] = SetAdd(@, PositionRelative)]
                 ELSE st
         IN  ScanChildren(element, Tail(children), absoluteSelector,
                          addPositionRelative(child, absoluteSelector, written).styles)

\* for (const child of element.children || []) { ... } return false
ScanChildren(element, children, absoluteSelector, st) ==
    IF Len(children) = 0 THEN [found |-> FALSE, styles |-> st]
    ELSE LET child == Head(children)
             currentSelector == PassSelector(element)
         IN  IF /\ ChildSelector(child) = absoluteSelector
                /\ currentSelector # <<>>
                /\ HasNode(element)
                /\ element._node.type = "FRAME"
             THEN [found |-> TRUE,
                   styles |-> [st EXCEPT ![currentSelector] = SetAdd(@, PositionRelative)]]
             ELSE LET below == addPositionRelative(child, absoluteSelector, st)
                  IN  IF below.found THEN below
                      ELSE ScanChildren(element, Tail(children), absoluteSelector, st)

addPositionRelative(element, absoluteSelector, st) ==
    ScanChildren(element, element.children, absoluteSelector, st)

\* absoluteElements.forEach(absoluteSelector => addPositionRelative(elementData))
RECURSIVE CorrectAncestors(_, _, _)
CorrectAncestors(root, absoluteElements, st) ==
    IF Len(absoluteElements) = 0 THEN st
    ELSE CorrectAncestors(root, Tail(absoluteElements),
                          addPositionRelative(root, Head(absoluteElements), st).styles)

\* one `selector {\n  decl;\n  decl;\n}\n` block
Block(selector, styleArray) == [selector |-> selector, styleArray |-> styleArray]

\* .map(selector => styleArray.length > 0 ? block : '').filter(Boolean)
RECURSIVE EmitBlocks(_, _)
EmitBlocks(selectors, st) ==
    IF Len(selectors) = 0 THEN <<>>
    ELSE LET selector == Head(selectors)
             styleArray == st[selector]
         IN  (IF Len(styleArray) > 0 THEN <<Block(selector, styleArray)>> ELSE <<>>)
               \o EmitBlocks(Tail(selectors), st)

\* EmitBlocks over the selectors as pushed, repetitions included
UniqueSelectors_Repeating(selectors) == selectors

UniqueSelectors(selectors) == Unique(selectors)

generateSCSS(root) ==
    LET collected == collectSelectorsAndStyles(root, EmptyCollection)
    IN  IF collected.threw THEN [threw |-> TRUE, text |-> <<>>]
        ELSE [threw |-> FALSE,
              text |-> EmitBlocks(UniqueSelectors(collected.selectors),
                                  CorrectAncestors(root, collected.absoluteElements,
                                                   collected.styles))]


-----------------------------------------------------------------------------
(* Element trees generateSCSS is run on: every tree of at most MaxNodes    *)
(* descriptors, each descriptor one of the Shapes below with no source     *)
(* node, a FRAME or an absolutely positioned GROUP.  A source node's       *)
(* parent is the source node of the enclosing descriptor and its x is its  *)
(* place among its siblings.                                               *)

Chars_a == <<"a">>
Chars_jsHook == <<"j","s","-","h","o","o","k">>

\* tag and classes, with the selector they derive
Shapes ==
    {[tag |-> Chars_div, classes |-> <<>>],                \* div
     [tag |-> Chars_div, classes |-> <<Chars_a>>],         \* .a
     [tag |-> Chars_div, classes |-> <<Chars_jsHook>>],    \* .
     [tag |-> Chars_picture, classes |-> <<>>]}            \* (empty)

NodeKinds == {"none", "FRAME", "GROUP"}

SourceNode(kind, parentRef, index) ==
    IF kind = "FRAME" THEN With(FrameBase, [parent |-> parentRef, x |-> Whole(index)])
    ELSE With(GroupBase, [parent |-> parentRef, x |-> Whole(index),
                          layoutPositioning |-> "ABSOLUTE"])

\* what node.parent shows of a node
RefOf(n) == IF n.type = "FRAME" THEN FrameRef(n.width) ELSE [type |-> n.type]

Descriptor(shape, kind, parentRef, index, children) ==
    LET base == [tag |-> shape.tag, classes |-> shape.classes,
                 attributes |-> <<>>, children |-> children]
    IN  IF kind = "none" THEN base
        ELSE With(base, [_node |-> SourceNode(kind, parentRef, index)])

\* The shapes of the trees of n descriptors, the descriptors numbered in
\* pre-order: parent[i] is the parent of descriptor i > 1, and lies on the
\* path from descriptor i - 1 to the root.
RECURSIVE IsAncestorOrSelf(_, _, _)
IsAncestorOrSelf(parent, a, i) ==
    IF a = i THEN TRUE
    ELSE IF i = 1 THEN FALSE
    ELSE IsAncestorOrSelf(parent, a, parent[i])

TreeShapes(n) ==
    {parent \in [2..n -> 1..n] :
        \A i \in 2..n : parent[i] < i /\ IsAncestorOrSelf(parent, parent[i], i - 1)}

\* the children of descriptor i, in order
RECURSIVE ChildrenOf(_, _, _, _)
ChildrenOf(parent, n, i, from) ==
    IF from > n THEN <<>>
    ELSE (IF parent[from] = i THEN <<from>> ELSE <<>>) \o ChildrenOf(parent, n, i, from + 1)

\* the tree rooted at descriptor i, its source node under parentRef at
\* place `index`
RECURSIVE BuildTree(_, _, _, _, _, _, _)
RECURSIVE BuildForest(_, _, _, _, _, _, _)
BuildTree(parent, shape, kind, n, i, parentRef, index) ==
    LET below == IF kind[i] = "none" THEN parentRef
                 ELSE RefOf(SourceNode(kind[i], parentRef, index))
    IN  Descriptor(shape[i], kind[i], parentRef, index,
                   BuildForest(parent, shape, kind, n, ChildrenOf(parent, n, i, i + 1),
                               below, 0))

BuildForest(parent, shape, kind, n, roots, parentRef, index) ==
    IF Len(roots) = 0 THEN <<>>
    ELSE <<BuildTree(parent, shape, kind, n, Head(roots), parentRef, index)>>
           \o BuildForest(parent, shape, kind, n, Tail(roots), parentRef, index + 1)

\* generateSCSS is called on the children of the exported frame
ExportedFrameRef == FrameRef(MaxNum)

\* The parents of descriptors 2, 3 and 4 of the smallest tree in which a
\* child of the root stands after a grandchild: root [ first [ inner ], last ].
\* ScssInit adds these trees when MaxNodes is too small to give them.
NestedShape == <<1, 2, 1>>

-----------------------------------------------------------------------------
(* Specification of the stylesheet emitter alone. *)

ScssInit ==
    /\ pc = "start"
    /\ \/ \E n \in 1..MaxNodes :
             \E parent \in TreeShapes(n), shape \in [1..n -> Shapes], kind \in [1..n -> NodeKinds] :
                 elementData = BuildTree(parent, shape, kind, n, 1, ExportedFrameRef, 0)
       \/ /\ MaxNodes <= Len(NestedShape)
          /\ \E shape \in [1..Len(NestedShape) + 1 -> Shapes],
                kind \in [1..Len(NestedShape) + 1 -> NodeKinds] :
                elementData = BuildTree([i \in 2..Len(NestedShape) + 1 |-> NestedShape[i - 1]],
                                        shape, kind, Len(NestedShape) + 1, 1, ExportedFrameRef, 0)
    /\ scss = Null
    /\ name = Null
    /\ result = Null
    /\ node = Null
    /\ styles = Null
    /\ scene = Null
    /\ calls = Null
    /\ html = Null

GenerateSCSS ==
    /\ pc = "start"
    /\ scss' = generateSCSS(elementData)
    /\ pc' = "emitted"
    /\ UNCHANGED <<name, result, node, styles, elementData, scene, calls, html>>

ScssNext == GenerateSCSS

SpecSCSS == ScssInit /\ [][ScssNext]_vars


-----------------------------------------------------------------------------
(* Claims about generateSCSS (checked under SpecSCSS). *)

\* the descriptors of a tree in depth-first pre-order
RECURSIVE PreOrder(_)
RECURSIVE PreOrderAll(_)
PreOrder(element) == <<element>> \o PreOrderAll(element.children)
PreOrderAll(children) ==
    IF Len(children) = 0 THEN <<>>
    ELSE PreOrder(Head(children)) \o PreOrderAll(Tail(children))

\* every (parent descriptor, child descriptor) pair of a tree
RECURSIVE ParentChildPairs(_)
ParentChildPairs(element) ==
    UNION {{[parent |-> element, child |-> element.children[i]]}
              \cup ParentChildPairs(element.children[i]) :
           i \in 1..Len(element.children)}

\* the selectors pushed during the walk, in order, repetitions included
SeenSelectors(root) ==
    LET all == PreOrder(root)
        sels == [i \in 1..Len(all) |-> WalkSelector(all[i])]
    IN  SelectSeq(sels, LAMBDA sel : sel # <<>>)

FirstIndex(seq, x) == CHOOSE i \in 1..Len(seq) : seq[i] = x /\ \A j \in 1..(i - 1) : seq[j] # x

\* every declaration the style mapper gives for the descriptors of a selector
NodeDeclarations(root, selector) ==
    UNION {Range(generateNodeStyles(d._node)) :
           d \in {e \in Range(PreOrder(root)) : HasNode(e) /\ WalkSelector(e) = selector}}

\* how many times declaration d stands in the blocks of a selector
Occurrences(text, selector, d) ==
    Cardinality({<<i, j>> \in (1..Len(text)) \X (1..MaxNodes * 16) :
                    /\ text[i].selector = selector
                    /\ j <= Len(text[i].styleArray)
                    /\ text[i].styleArray[j] = d})

IsAbsolute(n) == "layoutPositioning" \in DOMAIN n /\ n.layoutPositioning = "ABSOLUTE"

\* C1: for every element tree, also when other descriptors share the
\* selector: a leaf whose source node is ABSOLUTE and whose immediate
\* parent has a non-empty selector and a FRAME source node gives exactly
\* one `position: relative` in that parent's block and exactly one
\* `position: absolute` with its left and top in its own block.
C1_ParentOfAbsoluteLeafIsRelative ==
    pc = "emitted" =>
        \A pair \in ParentChildPairs(elementData) :
            LET parent == pair.parent
                leaf == pair.child
            IN  (/\ Len(leaf.children) = 0
                 /\ HasNode(leaf)
                 /\ IsAbsolute(leaf._node)
                 /\ WalkSelector(leaf) # <<>>
                 /\ WalkSelector(parent) # <<>>
                 /\ HasNode(parent)
                 /\ parent._node.type = "FRAME")
                =>
                (/\ Occurrences(scss.text, WalkSelector(parent), PositionRelative) = 1
                 /\ Occurrences(scss.text, WalkSelector(leaf), PositionAbsolute) = 1
                 /\ Occurrences(scss.text, WalkSelector(leaf),
                                Px("left", <<Round(leaf._node.x)>>)) = 1
                 /\ Occurrences(scss.text, WalkSelector(leaf),
                                Px("top", <<Round(leaf._node.y)>>)) = 1)

\* C4: the text of one call holds one block per distinct selector, in the
\* order the selectors are first seen in the pre-order walk; a selector on
\* several descriptors gives one block, a selector whose merged style set
\* is empty gives none.
C4_BlocksInFirstSeenOrder ==
    pc = "emitted" /\ ~scss.threw =>
        LET seen == SeenSelectors(elementData)
            blocks == scss.text
        IN  /\ \A i, j \in 1..Len(blocks) :
                  i < j => /\ blocks[i].selector # blocks[j].selector
                           /\ FirstIndex(seen, blocks[i].selector)
                                < FirstIndex(seen, blocks[j].selector)
            /\ {blocks[i].selector : i \in 1..Len(blocks)} =
                  {sel \in Range(seen) : NodeDeclarations(elementData, sel) # {}}
            /\ \A i \in 1..Len(blocks) : blocks[i].styleArray # <<>>

\* a selector seen twice, with another one first seen in between, came out
\* as two blocks
C4_Witness ==
    /\ pc = "emitted"
    /\ Len(scss.text) = 2
    /\ LET seen == SeenSelectors(elementData)
       IN  Len(seen) = 3 /\ seen[1] = seen[3] /\ seen[1] # seen[2]

\* C5: the selector is derived from (tag, classes) alone and in the same way
\* in the walk and in the ancestor-correction pass; descriptors with the
\* same (tag, classes) share one style set; merging is an idempotent union:
\* each block holds every declaration of its descriptors, each exactly once.
C5_MergeIsIdempotentUnion ==
    pc = "emitted" /\ ~scss.threw =>
        LET all == Range(PreOrder(elementData))
            blocks == scss.text
        IN  /\ \A d \in all :
                  /\ WalkSelector(d) = PassSelector(d)
                  /\ WalkSelector(d) = ChildSelector(d)
            /\ \A d, e \in all :
                  d.tag = e.tag /\ d.classes = e.classes => WalkSelector(d) = WalkSelector(e)
            /\ \A i \in 1..Len(blocks) :
                  LET given == NodeDeclarations(elementData, blocks[i].selector)
                      held == blocks[i].styleArray
                  IN  /\ given \subseteq Range(held)
                      /\ Range(held) \subseteq given \cup {PositionRelative}
                      /\ \A j, k \in 1..Len(held) : j < k => held[j] # held[k]

\* two descriptors of one selector gave a common declaration and different
\* ones, and the one block of the selector holds them all
C5_Witness ==
    /\ pc = "emitted"
    /\ Len(scss.text) = 1
    /\ LET all == PreOrder(elementData)
       IN  \E i, j \in 1..Len(all) :
              /\ i < j
              /\ HasNode(all[i]) /\ HasNode(all[j])
              /\ WalkSelector(all[i]) = WalkSelector(all[j])
              /\ WalkSelector(all[i]) # <<>>
              /\ Range(generateNodeStyles(all[i]._node))
                    \cap Range(generateNodeStyles(all[j]._node)) # {}
              /\ Range(generateNodeStyles(all[i]._node))
                    # Range(generateNodeStyles(all[j]._node))

\* the places of the descriptors of a tree: the path of child indexes from
\* the root; At gives the descriptor at a place
RECURSIVE Paths(_)
Paths(element) ==
    {<<>>} \cup UNION {{<<i>> \o p : p \in Paths(element.children[i])} :
                       i \in 1..Len(element.children)}

RECURSIVE At(_, _)
At(element, path) ==
    IF Len(path) = 0 THEN element ELSE At(element.children[Head(path)], Tail(path))

Front(path) == SubSeq(path, 1, Len(path) - 1)

\* place p comes before place q in depth-first pre-order
Before(p, q) ==
    \E k \in 1..Len(q) :
        /\ \A j \in 1..(k - 1) : j <= Len(p) /\ p[j] = q[j]
        /\ \/ Len(p) = k - 1
           \/ Len(p) >= k /\ p[k] < q[k]

\* the selectors of the descriptors whose source node is absolutely placed
AbsoluteSelectors(root) ==
    {WalkSelector(d) :
        d \in {e \in Range(PreOrder(root)) :
                  /\ HasNode(e)
                  /\ WalkSelector(e) # <<>>
                  /\ IsAbsolute(e._node)}}

\* the descriptor at `path` carries the selector and its parent has a
\* non-empty selector and a FRAME source node
Corrects(root, path, absoluteSelector) ==
    /\ path # <<>>
    /\ WalkSelector(At(root, path)) = absoluteSelector
    /\ LET parent == At(root, Front(path))
       IN  /\ WalkSelector(parent) # <<>>
           /\ HasNode(parent)
           /\ parent._node.type = "FRAME"

\* the first such place in pre-order, as a set of at most one place
FirstCorrected(root, absoluteSelector) ==
    {p \in Paths(root) :
        /\ Corrects(root, p, absoluteSelector)
        /\ \A q \in Paths(root) :
              Corrects(root, q, absoluteSelector) => q = p \/ Before(p, q)}

\* the selectors the ancestor-correction pass is to write to
CorrectedSelectors(root) ==
    {WalkSelector(At(root, Front(p))) :
        p \in UNION {FirstCorrected(root, a) : a \in AbsoluteSelectors(root)}}

\* the declarations standing in the blocks of a selector
Held(text, selector) ==
    UNION {Range(text[i].styleArray) : i \in {j \in 1..Len(text) : text[j].selector = selector}}

\* C13: the ancestor-correction pass is additive and bounded. For each
\* selector of the absolute-position set it adds `position: relative` to
\* the style set of one selector at most: that of the parent of the first
\* descriptor in pre-order that carries the absolute selector under a
\* parent with a non-empty selector and a FRAME source node. It adds no
\* other declaration, removes none collected by the walk, and writes only
\* to style sets the walk created.
C13_CorrectionIsAdditiveAndBounded ==
    pc = "emitted" /\ ~scss.threw =>
        LET seen == Range(SeenSelectors(elementData))
            corrected == CorrectedSelectors(elementData)
        IN  /\ \A i \in 1..Len(scss.text) : scss.text[i].selector \in seen
            /\ corrected \subseteq seen
            /\ Cardinality(corrected) <= Cardinality(AbsoluteSelectors(elementData))
            /\ \A a \in AbsoluteSelectors(elementData) :
                  Cardinality(FirstCorrected(elementData, a)) <= 1
            /\ \A sel \in seen :
                  Held(scss.text, sel) =
                      NodeDeclarations(elementData, sel)
                        \cup (IF sel \in corrected THEN {PositionRelative} ELSE {})

\* root [ first [ inner ], last ]: inner and last carry one absolute
\* selector, the root and first are frames with selectors of their own;
\* the search met inner under first before it met last under the root,
\* and only first's block holds `position: relative`
C13_Witness ==
    /\ pc = "emitted"
    /\ ~scss.threw
    /\ Len(elementData.children) = 2
    /\ Len(elementData.children[1].children) = 1
    /\ LET first == elementData.children[1]
           inner == first.children[1]
           last == elementData.children[2]
       IN  /\ HasNode(inner) /\ IsAbsolute(inner._node)
           /\ WalkSelector(inner) # <<>>
           /\ WalkSelector(last) = WalkSelector(inner)
           /\ HasNode(first) /\ first._node.type = "FRAME"
           /\ HasNode(elementData) /\ elementData._node.type = "FRAME"
           /\ WalkSelector(first) # <<>>
           /\ WalkSelector(elementData) # <<>>
           /\ WalkSelector(first) # WalkSelector(elementData)
           /\ WalkSelector(first) # WalkSelector(inner)
           /\ WalkSelector(elementData) # WalkSelector(inner)
           /\ PositionRelative \in Held(scss.text, WalkSelector(first))
           /\ PositionRelative \notin Held(scss.text, WalkSelector(elementData))

\* selector is a well-formed selector of descriptor d: its bare tag, not
\* `picture`, when d has no classes; else `.` and the non-empty chain of
\* its classes that do not start with `js-`
WellFormedFor(selector, d) ==
    IF Len(d.classes) = 0
    THEN selector = d.tag /\ d.tag # Chars_picture /\ d.tag # <<>>
    ELSE LET kept == SelectSeq(d.classes, LAMBDA cls : ~StartsWith(cls, Chars_jsPrefix))
         IN  /\ Len(kept) > 0
             /\ selector = <<".">> \o Join(kept, <<".">>)

\* C15: every selector under which a block is emitted is well-formed for
\* some descriptor of the tree; a descriptor whose classes all start with
\* `js-` contributes no block with the selector `.`, and the descriptors
\* below it still get their blocks.
C15_SelectorsWellFormed ==
    pc = "emitted" /\ ~scss.threw =>
        LET all == Range(PreOrder(elementData))
        IN  /\ \A i \in 1..Len(scss.text) :
                  /\ scss.text[i].selector # <<".">>
                  /\ \E d \in all : WellFormedFor(scss.text[i].selector, d)
            /\ \A d \in all :
                  (/\ HasNode(d)
                   /\ generateNodeStyles(d._node) # <<>>
                   /\ \E sel \in Range(SeenSelectors(elementData)) : WellFormedFor(sel, d))
                  => \E i \in 1..Len(scss.text) : WellFormedFor(scss.text[i].selector, d)


-----------------------------------------------------------------------------
(* Element-tree builder and markup emitter (services/html-generator.ts).   *)
(* The markup is text: a sequence of characters, "\n" the line break.      *)

Chars_img == <<"i","m","g">>
Chars_input == <<"i","n","p","u","t">>
Chars_src == <<"s","r","c">>
Chars_alt == <<"a","l","t">>
Chars_width == <<"w","i","d","t","h">>
Chars_height == <<"h","e","i","g","h","t">>
Chars_dummyJpg == <<".","/","i","m","a","g","e","s","/","d","u","m","m","y",".","j","p","g">>
Chars_classEq == <<" ","c","l","a","s","s","=","\"">>

\* Number.prototype.toString of a non-negative integer
RECURSIVE Digits(_)
Digits(n) ==
    LET digit == <<"0","1","2","3","4","5","6","7","8","9">>[(n % 10) + 1]
    IN  IF n < 10 THEN <<digit>> ELSE Digits(n \div 10) \o <<digit>>

\* Math.round(v).toString(), v >= 0 in halves
RoundToString(v) == Digits(Round(v) \div 2)

\* a truthy string attribute
HasTruthy(attrs, k) == HasKey(attrs, k) /\ Get(attrs, k) # <<>>

getNodeInfo(n) ==
    LET parsed == parseNodeName(n.name)
    IN  [tag |-> IF parsed.tag # <<>> THEN parsed.tag ELSE Chars_div,
         classes |-> parsed.classes,
         attributes |-> parsed.attributes]

\* imgAttributes of generateElementData
ImgAttributes(n, nodeInfo) ==
    LET src == IF HasTruthy(nodeInfo.attributes, Chars_src)
               THEN Get(nodeInfo.attributes, Chars_src) ELSE Chars_dummyJpg
        sized == <<[key |-> Chars_src, value |-> src],
                   [key |-> Chars_width, value |-> RoundToString(n.width)],
                   [key |-> Chars_height, value |-> RoundToString(n.height)]>>
    IN  IF HasTruthy(nodeInfo.attributes, Chars_alt)
        THEN Put(sized, Chars_alt, Get(nodeInfo.attributes, Chars_alt))
        ELSE sized

RECURSIVE generateElementData(_)
RECURSIVE ElementDataOfAll(_)

\* for (const child of node.children) children.push(generateElementData(child))
ElementDataOfAll(nodes) ==
    IF Len(nodes) = 0 THEN <<>>
    ELSE <<generateElementData(Head(nodes))>> \o ElementDataOfAll(Tail(nodes))

\* ElementOf without the special case of `img`
ElementOf_NoImgRule(n, nodeInfo, children) ==
    IF isTextNode(n)
    THEN [tag |-> nodeInfo.tag, classes |-> nodeInfo.classes,
          attributes |-> nodeInfo.attributes,
          children |-> children, text |-> n.characters, _node |-> n]
    ELSE [tag |-> nodeInfo.tag, classes |-> nodeInfo.classes,
          attributes |-> nodeInfo.attributes,
          children |-> children, _node |-> n]

\* the descriptor returned for node n, given its nodeInfo and children
ElementOf(n, nodeInfo, children) ==
    IF nodeInfo.tag = Chars_img
    THEN [tag |-> Chars_img, classes |-> nodeInfo.classes,
          attributes |-> ImgAttributes(n, nodeInfo),
          children |-> <<>>, _node |-> n]
    ELSE IF isTextNode(n)
    THEN [tag |-> nodeInfo.tag, classes |-> nodeInfo.classes,
          attributes |-> nodeInfo.attributes,
          children |-> children, text |-> n.characters, _node |-> n]
    ELSE [tag |-> nodeInfo.tag, classes |-> nodeInfo.classes,
          attributes |-> nodeInfo.attributes,
          children |-> children, _node |-> n]

generateElementData(n) ==
    ElementOf(n, getNodeInfo(n),
              IF "children" \in DOMAIN n THEN ElementDataOfAll(n.children) ELSE <<>>)

\* `${key}="${value}"`
AttrString(attr) == attr.key \o <<"=", "\"">> \o attr.value \o <<"\"">>

\* ` class="..."` or nothing
ClassStr(element) ==
    IF "classes" \in DOMAIN element /\ Len(element.classes) > 0
    THEN Chars_classEq \o Join(element.classes, <<" ">>) \o <<"\"">>
    ELSE <<>>

\* ` k="v" k="v"` or nothing
AttrStr(element) ==
    IF "attributes" \in DOMAIN element /\ Len(element.attributes) > 0
    THEN <<" ">> \o Join([i \in 1..Len(element.attributes) |->
                             AttrString(element.attributes[i])], <<" ">>)
    ELSE <<>>

OpenTag(element) == <<"<">> \o element.tag \o ClassStr(element) \o AttrStr(element) \o <<">">>
CloseTag(element) == <<"<", "/">> \o element.tag \o <<">">>

RECURSIVE generateHTML(_, _)
RECURSIVE HTMLOfAll(_, _)

\* children.map(child => generateHTML(child, indent + '  '))
HTMLOfAll(children, indent) ==
    IF Len(children) = 0 THEN <<>>
    ELSE <<generateHTML(Head(children), indent)>> \o HTMLOfAll(Tail(children), indent)

generateHTML(element, indent) ==
    IF element.tag = Chars_input \/ element.tag = Chars_img
    THEN indent \o OpenTag(element)
    ELSE IF "text" \in DOMAIN element /\ element.text # <<>>
    THEN indent \o OpenTag(element) \o element.text \o CloseTag(element)
    ELSE IF Len(element.children) = 0
    THEN indent \o OpenTag(element) \o CloseTag(element)
    ELSE indent \o OpenTag(element) \o <<"\n">>
           \o Join(HTMLOfAll(element.children, indent \o <<" ", " ">>), <<"\n">>)
           \o <<"\n">> \o indent \o CloseTag(element)


-----------------------------------------------------------------------------
(* The document.  A node id is the path of places from the page to the     *)
(* node; the empty path is the empty string.  node.parent shows the type   *)
(* of the parent and, of a frame, its width.                               *)

MaxCalls == 2

Chars_p == <<"p">>
Chars_isPc == <<".","i","s","_","p","c">>
Chars_isSp == <<".","i","s","_","s","p">>

RECURSIVE Placed(_, _, _)
RECURSIVE PlacedAll(_, _, _, _)

\* node n at path id under the parent shown by parentRef
Placed(n, id, parentRef) ==
    LET here == With(n, [id |-> id, parent |-> parentRef])
    IN  IF "children" \in DOMAIN n
        THEN With(here, [children |-> PlacedAll(n.children, id, 1, RefOf(n))])
        ELSE here

PlacedAll(nodes, id, i, parentRef) ==
    IF Len(nodes) = 0 THEN <<>>
    ELSE <<Placed(Head(nodes), Append(id, i), parentRef)>>
           \o PlacedAll(Tail(nodes), id, i + 1, parentRef)

Layer(base, label) == With(base, [name |-> label, visible |-> TRUE])
Container(base, label, children) ==
    With(base, [name |-> label, visible |-> TRUE, children |-> children])

Heading == With(Layer(ExampleText, <<"p", ".", "a">>), [characters |-> <<"H", "i">>])
Badge == With(Layer(RectangleBase, <<".", "b">> \o Chars_isPc),
              [layoutPositioning |-> "ABSOLUTE"])
MobileNote == With(Layer(TextBase, Chars_p \o Chars_isSp),
                   [characters |-> <<"s", "p">>, visible |-> FALSE])
Photo == With(Layer(RectangleBase, <<"p", "h", "o", "t", "o">>),
              [fills |-> Array(<<ImagePaint>>), width |-> Whole(2)])
Picture == Container(FrameBase, Chars_img, <<Heading>>)
Hostile == Layer(RectangleBase, Chars_constructor)
Card == Container(FrameBase, <<".", "a">>,
                  <<With(Layer(RectangleBase, <<".", "a">>), [layoutPositioning |-> "ABSOLUTE"])>>)

\* the page holds one frame and, beside it, one text layer
PageOf(children) ==
    PlacedAll(<<Container(FrameBase, Chars_div, children),
                Layer(TextBase, <<"n", "o", "t", "e">>)>>, <<>>, 1, PageRef)

Scenes ==
    {PageOf(<<>>),
     PageOf(<<Heading, Badge>>),
     PageOf(<<MobileNote, Photo>>),
     PageOf(<<Picture>>),
     PageOf(<<Heading, Hostile>>),
     PageOf(<<Card>>)}

\* the ids an `export` message may carry: none, unknown, the frame, the text
\* layer beside it, the first layer inside the frame; the other messages
\* carry the unknown id or the frame's
FrameIds == {<<>>, <<0>>, <<1>>, <<2>>, <<1, 1>>}

RECURSIVE getNodeById(_, _)
\* figma.getNodeByIdAsync(id), once resolved: the node, or null
getNodeById(nodes, id) ==
    IF Len(nodes) = 0 THEN Null
    ELSE LET n == Head(nodes)
             below == IF "children" \in DOMAIN n THEN getNodeById(n.children, id) ELSE Null
         IN  IF n.id = id THEN n
             ELSE IF below # Null THEN below
             ELSE getNodeById(Tail(nodes), id)

RECURSIVE ReplaceNode(_, _)
\* the document after the writes made to one node (and the nodes below it)
ReplaceNode(nodes, new) ==
    [i \in 1..Len(nodes) |->
        IF nodes[i].id = new.id THEN new
        ELSE IF "children" \in DOMAIN nodes[i]
        THEN With(nodes[i], [children |-> ReplaceNode(nodes[i].children, new)])
        ELSE nodes[i]]

getTopLevelFrames(page) ==
    SelectSeq(page, LAMBDA n : n.type = "FRAME" /\ n.parent = PageRef)


-----------------------------------------------------------------------------
(* figma.ui.onmessage.  An invocation runs to its await of                 *)
(* figma.getNodeByIdAsync, or to its end when it has none; the host        *)
(* resumes it later with the node, and other invocations may run in        *)
(* between.  The awaits of renameLayer resolve within the same task.       *)
(* Each invocation keeps what it posted to the UI, what it notified and    *)
(* what it wrote to the console.                                           *)

SpWidth == 425
PcWidth == 1440

Chars_errorHtml == <<"<","!","-","-"," ","E","r","r","o","r"," ","g","e","n","e","r","a","t","i","n","g"," ","H","T","M","L"," ","-","-",">">>
Chars_errorScss == <<"/","/"," ","E","r","r","o","r"," ","g","e","n","e","r","a","t","i","n","g"," ","S","C","S","S">>
Chars_placeholdPrefix == <<"i","m","g","[","s","r","c","=","\"","h","t","t","p","s",":","/","/","p","l","a","c","e","h","o","l","d",".","j","p","/">>
Chars_placeholdSuffix == <<".","p","n","g","\"","]">>

\* a `// ...` line of stylesheet text
Comment(text) == [comment |-> text]

\* the message of the catch block of `export`; its scss is one line
ErrorOutput ==
    [type |-> "export-output", html |-> Chars_errorHtml,
     scss |-> <<<<Comment(Chars_errorScss)>>>>]

\* the try block of `export` with the node the await gave: the message
\* posted.  scss is the per-child texts, joined by a blank line.
ExportOutput_MixedOnThrow(n) ==
    IF n = Null \/ n.type # "FRAME" THEN ErrorOutput
    ELSE LET childrenElements == ElementDataOfAll(n.children)
             sheets == [i \in 1..Len(childrenElements) |-> generateSCSS(childrenElements[i])]
         IN  [type |-> "export-output",
              html |-> Join(HTMLOfAll(childrenElements, <<>>), <<"\n">>),
              scss |-> IF \E i \in 1..Len(sheets) : sheets[i].threw
                       THEN ErrorOutput.scss
                       ELSE [i \in 1..Len(sheets) |-> sheets[i].text]]

\* the message posted for the descriptors of the children and the outcome
\* of generateSCSS on each
OutputOf(childrenElements, sheets) ==
    IF \E i \in 1..Len(sheets) : sheets[i].threw THEN ErrorOutput
    ELSE [type |-> "export-output",
          html |-> Join(HTMLOfAll(childrenElements, <<>>), <<"\n">>),
          scss |-> [i \in 1..Len(sheets) |-> sheets[i].text]]

\* childrenElements.map(child => generateSCSS(child))
SheetsOf(childrenElements) ==
    [i \in 1..Len(childrenElements) |-> generateSCSS(childrenElements[i])]

\* OutputOf, by way of the descriptors alone
GeneratedFrom(childrenElements) == OutputOf(childrenElements, SheetsOf(childrenElements))

ExportOutput(n) ==
    IF n = Null \/ n.type # "FRAME" THEN ErrorOutput
    ELSE GeneratedFrom(ElementDataOfAll(n.children))

\* /^(div|p|img)[\.\[]/.test(name)
shouldSkipRename(label) ==
    \E t \in {Chars_div, Chars_p, Chars_img} :
        StartsWith(label, t \o <<".">>) \/ StartsWith(label, t \o <<"[">>)

\* the name renameLayer assigns
NewName(n) ==
    IF n.type = "TEXT" THEN Chars_p
    ELSE IF n.type = "FRAME" THEN Chars_div
    ELSE IF n.type = "RECTANGLE" /\ "fills" \in DOMAIN n /\ IsArray(n.fills)
            /\ Len(n.fills.array) > 0
    THEN IF n.fills.array[1].type = "IMAGE"
         THEN Chars_placeholdPrefix \o RoundToString(n.width) \o <<"x">>
                \o RoundToString(n.height) \o Chars_placeholdSuffix
         ELSE Chars_div
    ELSE Chars_div

RECURSIVE renameLayer(_, _)
renameLayer(n, isTopLevel) ==
    LET renamed == IF ~isTopLevel /\ ~shouldSkipRename(n.name)
                   THEN With(n, [name |-> NewName(n)]) ELSE n
    IN  IF "children" \in DOMAIN renamed
        THEN With(renamed, [children |-> [i \in 1..Len(renamed.children) |->
                                            renameLayer(renamed.children[i], FALSE)]])
        ELSE renamed

\* s.includes(m)
Includes(s, m) == IndexOfSub(s, m, 1) # 0

RECURSIVE toggleVisibility(_, _)
\* toggleVisibility of `sp-layout` (pcMode FALSE) and `pc-layout` (TRUE)
toggleVisibility(n, pcMode) ==
    LET toggled == IF Includes(n.name, Chars_isPc) THEN With(n, [visible |-> pcMode])
                   ELSE IF Includes(n.name, Chars_isSp) THEN With(n, [visible |-> ~pcMode])
                   ELSE n
    IN  IF "children" \in DOMAIN toggled
        THEN With(toggled, [children |-> [i \in 1..Len(toggled.children) |->
                                            toggleVisibility(toggled.children[i], pcMode)]])
        ELSE toggled

\* node.resize(width, node.height): the width, as the layers below see it too
resize(n, width) ==
    With(n, [width |-> Whole(width),
             children |-> [i \in 1..Len(n.children) |->
                             With(n.children[i], [parent |-> FrameRef(Whole(width))])]])

\* sendFramesToUI
FramesList(page) ==
    LET frames == getTopLevelFrames(page)
    IN  [type |-> "frames-list",
         frames |-> [i \in 1..Len(frames) |->
                       [name |-> frames[i].name, id |-> frames[i].id,
                        children |-> Len(frames[i].children)]]]

AwaitingTypes == {"rename", "sp-layout", "pc-layout", "export"}

Messages ==
    {[type |-> "get-frames"], [type |-> "close"],
     [type |-> "show-notification"],
     [type |-> "show-notification", message |-> <<"o", "k">>]}
    \cup {[type |-> t] : t \in AwaitingTypes}
    \cup {[type |-> t, frameId |-> id] : t \in AwaitingTypes \ {"export"}, id \in {<<0>>, <<1>>}}
    \cup {[type |-> "export", frameId |-> id] : id \in FrameIds}

\* if (msg.frameId): present and not the empty string
HasFrameId(msg) == "frameId" \in DOMAIN msg /\ msg.frameId # <<>>

Invocation(msg, at) ==
    [msg |-> msg, at |-> at, posted |-> <<>>, notified |-> <<>>, console |-> <<>>]

Notice(text) == [message |-> text, error |-> FALSE]
ErrorNotice(text) == [message |-> text, error |-> TRUE]

Init ==
    /\ pc = "plugin"
    /\ scene \in Scenes
    /\ calls = <<>>
    /\ name = Null
    /\ result = Null
    /\ node = Null
    /\ styles = Null
    /\ elementData = Null
    /\ scss = Null
    /\ html = Null

\* a message arrives: the handler runs to its await, or to its end
OnMessage(msg) ==
    /\ pc = "plugin"
    /\ Len(calls) < MaxCalls
    /\ calls' = Append(calls,
         IF msg.type = "get-frames"
         THEN With(Invocation(msg, "returned"), [posted |-> <<FramesList(scene)>>])
         ELSE IF msg.type = "show-notification"
         THEN IF "message" \in DOMAIN msg /\ msg.message # <<>>
              THEN With(Invocation(msg, "returned"), [notified |-> <<Notice(msg.message)>>])
              ELSE Invocation(msg, "returned")
         ELSE IF msg.type \in AwaitingTypes
         THEN IF HasFrameId(msg) THEN Invocation(msg, "awaiting")
              ELSE Invocation(msg, "returned")
         ELSE With(Invocation(msg, "returned"), [console |-> <<"Unknown message type:">>]))
    /\ UNCHANGED <<pc, name, result, node, styles, elementData, scss, scene, html>>

Awaiting(i, type) ==
    /\ pc = "plugin"
    /\ i \in 1..Len(calls)
    /\ calls[i].at = "awaiting"
    /\ calls[i].msg.type = type

Resolved(i) == getNodeById(scene, calls[i].msg.frameId)
IsFrame(n) == n # Null /\ n.type = "FRAME"

Failure(call, where, text) ==
    With(call, [at |-> "returned", console |-> <<where>>, notified |-> <<ErrorNotice(text)>>])
Success(call, text) ==
    With(call, [at |-> "returned", notified |-> <<Notice(text)>>])

\* `rename` after its await
RenameResume(i) ==
    /\ Awaiting(i, "rename")
    /\ IF IsFrame(Resolved(i))
       THEN /\ scene' = ReplaceNode(scene, renameLayer(Resolved(i), TRUE))
            /\ calls' = [calls EXCEPT ![i] = Success(@, "layer names changed")]
       ELSE /\ scene' = scene
            /\ calls' = [calls EXCEPT ![i] =
                           Failure(@, "Error in rename:", "changing layer names failed")]
    /\ UNCHANGED <<pc, name, result, node, styles, elementData, scss, html>>

\* `sp-layout` after its await
SpLayoutResume(i) ==
    /\ Awaiting(i, "sp-layout")
    /\ IF IsFrame(Resolved(i))
       THEN /\ scene' = ReplaceNode(scene, toggleVisibility(resize(Resolved(i), SpWidth), FALSE))
            /\ calls' = [calls EXCEPT ![i] = Success(@, "SP layout applied")]
       ELSE /\ scene' = scene
            /\ calls' = [calls EXCEPT ![i] =
                           Failure(@, "Error in SP layout:", "applying SP layout failed")]
    /\ UNCHANGED <<pc, name, result, node, styles, elementData, scss, html>>

\* `pc-layout` after its await
PcLayoutResume(i) ==
    /\ Awaiting(i, "pc-layout")
    /\ IF IsFrame(Resolved(i))
       THEN /\ scene' = ReplaceNode(scene, toggleVisibility(resize(Resolved(i), PcWidth), TRUE))
            /\ calls' = [calls EXCEPT ![i] = Success(@, "PC layout applied")]
       ELSE /\ scene' = scene
            /\ calls' = [calls EXCEPT ![i] =
                           Failure(@, "Error in PC layout:", "applying PC layout failed")]
    /\ UNCHANGED <<pc, name, result, node, styles, elementData, scss, html>>

\* the invocation once `export` has posted `message`
Exported(call, message) ==
    With(call, [at |-> "returned", posted |-> <<message>>,
                console |-> IF message = ErrorOutput THEN <<"Error in export:">> ELSE <<>>])

\* `export` after its await, writing the names renameLayer assigns as well
ExportResume_Renaming(i) ==
    /\ Awaiting(i, "export")
    /\ calls' = [calls EXCEPT ![i] = Exported(@, ExportOutput(Resolved(i)))]
    /\ scene' = IF IsFrame(Resolved(i))
                THEN ReplaceNode(scene, renameLayer(Resolved(i), TRUE)) ELSE scene
    /\ UNCHANGED <<pc, name, result, node, styles, elementData, scss, html>>

\* `export` after its await
ExportResume(i) ==
    /\ Awaiting(i, "export")
    /\ calls' = [calls EXCEPT ![i] = Exported(@, ExportOutput(Resolved(i)))]
    /\ UNCHANGED <<pc, name, result, node, styles, elementData, scss, scene, html>>

Next ==
    \/ \E msg \in Messages : OnMessage(msg)
    \/ \E i \in 1..MaxCalls : RenameResume(i)
    \/ \E i \in 1..MaxCalls : SpLayoutResume(i)
    \/ \E i \in 1..MaxCalls : PcLayoutResume(i)
    \/ \E i \in 1..MaxCalls : ExportResume(i)

Spec == Init /\ [][Next]_vars

\* invocation i is suspended at its await
Awaits(i) == i \in 1..Len(calls) /\ calls[i].at = "awaiting"

\* the step that resumes invocation i
ResumeOf(i) ==
    RenameResume(i) \/ SpLayoutResume(i) \/ PcLayoutResume(i) \/ ExportResume(i)

\* The host settles every getNodeByIdAsync promise and the continuation
\* runs: weak fairness of ResumeOf(i) for every invocation, written out
\* as []<>~ENABLED <<A>>_vars \/ []<><<A>>_vars with Awaits(i) for
\* ENABLED <<ResumeOf(i)>>_vars (a suspended invocation can always be
\* resumed, and resuming it changes calls[i].at).
FairSpec ==
    /\ Init /\ [][Next]_vars
    /\ \A i \in 1..MaxCalls : []<>~Awaits(i) \/ []<><<ResumeOf(i)>>_vars

-----------------------------------------------------------------------------
(* Claims about the `export` case of the handler (checked under FairSpec). *)

\* the invocations for an `export` message that carries a frameId
ExportCalls ==
    {i \in 1..Len(calls) : calls[i].msg.type = "export" /\ HasFrameId(calls[i].msg)}

\* both artifacts, generated from the children of frame n
GeneratedPair(n) ==
    [type |-> "export-output",
     html |-> Join([k \in 1..Len(n.children) |->
                      generateHTML(generateElementData(n.children[k]), <<>>)], <<"\n">>),
     scss |-> [k \in 1..Len(n.children) |->
                 generateSCSS(generateElementData(n.children[k])).text]]

PlaceholderPair ==
    [type |-> "export-output", html |-> Chars_errorHtml,
     scss |-> <<<<[comment |-> Chars_errorScss]>>>>]

\* the id resolves to no node or to a non-FRAME node, or generation throws
GenerationFails(n) ==
    \/ n = Null
    \/ n.type # "FRAME"
    \/ \E k \in 1..Len(n.children) : generateSCSS(generateElementData(n.children[k])).threw

\* C3: for every `export` message that carries a frameId the handler
\* eventually posts exactly one `export-output` message, and nothing before
\* it; the message is the pair generated from the children of the resolved
\* FRAME node, or, when the id resolves to no node or to a non-FRAME node or
\* generation throws, exactly the placeholder pair; one generated artifact is
\* never posted next to one placeholder, and the invocation returns (no
\* exception escapes it).
C3_ExportAllOrNothing ==
    /\ [](\A i \in ExportCalls :
            \/ calls[i].at = "awaiting" /\ calls[i].posted = <<>>
            \/ /\ calls[i].at = "returned"
               /\ Len(calls[i].posted) = 1
               /\ calls[i].posted[1].type = "export-output"
               /\ (calls[i].posted[1].html = PlaceholderPair.html)
                    <=> (calls[i].posted[1].scss = PlaceholderPair.scss))
    /\ [][\A i \in ExportCalls :
            calls[i].at = "awaiting" /\ calls'[i].at # "awaiting"
            => calls'[i].posted =
                 <<IF GenerationFails(Resolved(i)) THEN PlaceholderPair
                   ELSE GeneratedPair(Resolved(i))>>]_vars
    /\ \A i \in 1..MaxCalls :
          (i \in ExportCalls)
            ~> (i \in ExportCalls /\ calls[i].at = "returned" /\ Len(calls[i].posted) = 1)

\* an export of a frame whose markup generates and whose stylesheet throws
\* has returned, with the placeholder pair posted
C3_Witness ==
    \E i \in ExportCalls :
        /\ calls[i].at = "returned"
        /\ IsFrame(Resolved(i))
        /\ Len(Resolved(i).children) > 1
        /\ calls[i].posted = <<PlaceholderPair>>


-----------------------------------------------------------------------------
(* Specification of the element builder and the markup emitter alone: a    *)
(* scene node is drawn and generateElementData builds its descriptor, or a *)
(* descriptor is drawn as a caller may write it; generateHTML then renders *)
(* the descriptor.                                                         *)

Chars_thumb == <<"t","h","u","m","b">>
Chars_aPng == <<"a",".","p","n","g">>
Chars_10 == <<"1", "0">>
Chars_20 == <<"2", "0">>

Label_imgThumbSrc == Chars_img \o <<".">> \o Chars_thumb \o BracketGroup(Chars_src, Chars_aPng)

\* labels of the layers the builder is run on
BuilderLabels ==
    {Chars_img,
     Label_imgThumbSrc,
     Chars_img \o BracketGroup(Chars_alt, <<"x">>),
     Chars_img \o BracketGroup(Chars_src, Chars_aPng) \o BracketGroup(Chars_alt, <<"x">>),
     Chars_input,
     Chars_div,
     <<".", "a">>,
     <<"p", ".", "a">>,
     <<"#", "m">>,
     <<>>}

\* what a layer may hold below it
ChildLists == {<<>>, <<Heading>>, <<Heading, Badge>>, <<Picture>>}

\* width and height 10 x 20, and sizes that are rounded
Sizes == {[width |-> Whole(10), height |-> Whole(20)],
          [width |-> 3, height |-> 1],
          [width |-> 0, height |-> Whole(MaxNum)]}

BuilderNodes ==
    {Placed(With(Container(FrameBase, label, children), size), <<1>>, PageRef) :
        label \in BuilderLabels, children \in ChildLists, size \in Sizes}
    \cup {Placed(With(With(Layer(TextBase, label), [characters |-> text]), size), <<1>>, PageRef) :
            label \in BuilderLabels, text \in {<<>>, <<"H", "i">>}, size \in Sizes}
    \cup {Placed(With(Layer(RectangleBase, label), size), <<1>>, PageRef) :
            label \in BuilderLabels, size \in Sizes}

\* the descriptor of the example, and descriptors no scene node yields:
\* `img` and `input` with children, with text, without classes or attributes
ExampleImg ==
    [tag |-> Chars_img, classes |-> <<Chars_thumb>>,
     attributes |-> <<[key |-> Chars_src, value |-> Chars_aPng],
                      [key |-> Chars_width, value |-> Chars_10],
                      [key |-> Chars_height, value |-> Chars_20]>>,
     children |-> <<>>]

Paragraph == [tag |-> Chars_p, classes |-> <<>>, attributes |-> <<>>,
              children |-> <<>>, text |-> <<"H", "i">>]

WrittenDescriptors ==
    {With(base, extra) :
        base \in {ExampleImg,
                  [tag |-> Chars_img, children |-> <<>>],
                  [tag |-> Chars_input, classes |-> <<Chars_a>>, attributes |-> <<>>,
                   children |-> <<>>],
                  [tag |-> Chars_div, classes |-> <<>>, attributes |-> <<>>,
                   children |-> <<>>]},
        extra \in {<<>>,
                   [children |-> <<Paragraph>>],
                   [text |-> <<"H", "i">>],
                   [children |-> <<Paragraph, ExampleImg>>, text |-> <<"H", "i">>]}}

Indents == {<<>>, <<" ", " ">>}

HtmlInit ==
    /\ \/ pc = "start" /\ node \in BuilderNodes /\ elementData = Null
       \/ pc = "built" /\ node = Null /\ elementData \in WrittenDescriptors
    /\ html = Null
    /\ name = Null
    /\ result = Null
    /\ styles = Null
    /\ scss = Null
    /\ scene = Null
    /\ calls = Null

GenerateElementData ==
    /\ pc = "start"
    /\ elementData' = generateElementData(node)
    /\ pc' = "built"
    /\ UNCHANGED <<name, result, node, styles, scss, scene, calls, html>>

GenerateHTML(indent) ==
    /\ pc = "built"
    /\ html' = generateHTML(elementData, indent)
    /\ pc' = "rendered"
    /\ UNCHANGED <<name, result, node, styles, elementData, scss, scene, calls>>

HtmlNext ==
    \/ GenerateElementData
    \/ \E indent \in Indents : GenerateHTML(indent)

SpecHTML == HtmlInit /\ [][HtmlNext]_vars


-----------------------------------------------------------------------------
(* Claims about generateElementData and generateHTML (checked under        *)
(* SpecHTML).                                                              *)

Chars_exampleImgTag == <<"<","i","m","g"," ","c","l","a","s","s","=","\"","t","h","u","m","b","\""," ","s","r","c","=","\"","a",".","p","n","g","\""," ","w","i","d","t","h","=","\"","1","0","\""," ","h","e","i","g","h","t","=","\"","2","0","\"",">">>

\* text without the spaces it starts with
RECURSIVE StripIndent(_)
StripIndent(text) ==
    IF Len(text) > 0 /\ Head(text) = " " THEN StripIndent(Tail(text)) ELSE text

\* how often character c occurs in text
CountOf(text, c) == Len(SelectSeq(text, LAMBDA x : x = c))

\* one open tag of `tag` and nothing else: no line break, no closing tag, no
\* second tag, and none of the text "Hi" the children and texts carry
IsSingleOpenTag(text, tag) ==
    /\ StartsWith(StripIndent(text), <<"<">> \o tag)
    /\ text[Len(text)] = ">"
    /\ CountOf(text, "<") = 1
    /\ CountOf(text, ">") = 1
    /\ CountOf(text, "\n") = 0
    /\ IndexOfSub(text, <<"<", "/">>, 1) = 0
    /\ IndexOfSub(text, <<"H", "i">>, 1) = 0

\* the node's label parses to the tag `img`
ParsesToImg(n) == parseNodeName(n.name).tag = Chars_img

\* C11: the `img` tag is terminal.  For a scene node whose label parses to
\* tag `img`, generateElementData returns a descriptor with tag `img`, an
\* empty children list and no text, whatever the node holds below it;
\* generateHTML renders a descriptor with tag `img` or `input` as a single
\* open tag with no closing tag and nothing of its children or text; and tag
\* img, classes ['thumb'], attributes {src: 'a.png', width: '10', height:
\* '20'} renders exactly <img class="thumb" src="a.png" width="10"
\* height="20">, also when the descriptor holds children or text.
C11_ImgIsTerminal ==
    /\ (pc \in {"built", "rendered"} /\ node # Null /\ ParsesToImg(node))
       => /\ elementData.tag = Chars_img
          /\ elementData.children = <<>>
          /\ "text" \notin DOMAIN elementData
    /\ (pc = "rendered" /\ elementData.tag \in {Chars_img, Chars_input})
       => IsSingleOpenTag(html, elementData.tag)
    /\ (/\ pc = "rendered"
        /\ elementData.tag = Chars_img
        /\ "classes" \in DOMAIN elementData /\ elementData.classes = <<Chars_thumb>>
        /\ "attributes" \in DOMAIN elementData
        /\ elementData.attributes = ExampleImg.attributes)
       => StripIndent(html) = Chars_exampleImgTag

\* a frame labelled img.thumb[src="a.png"], 10 by 20, with layers below it,
\* has been built and rendered as the tag of the example
C11_Witness ==
    /\ pc = "rendered"
    /\ node # Null
    /\ node.name = Label_imgThumbSrc
    /\ "children" \in DOMAIN node /\ Len(node.children) > 0
    /\ elementData.children = <<>>
    /\ html = Chars_exampleImgTag


\* invocation i, of an `export` message, starts or is resumed in this step
ExportStep(i) ==
    \/ /\ Len(calls) = i - 1
       /\ Len(calls') = i
       /\ calls'[i].msg.type = "export"
    \/ /\ i <= Len(calls)
       /\ calls[i].msg.type = "export"
       /\ calls[i].at = "awaiting"
       /\ calls'[i].at = "returned"

\* C12: generation never mutates the scene graph.  A step of the handler
\* for an `export` message (its start, and its resumption that runs
\* generateElementData, generateHTML and generateSCSS and posts the
\* generated pair or the placeholder pair) leaves the document as it was:
\* every node's label, visibility, geometry, fills, layout fields and child
\* list.
C12_ExportLeavesSceneUnchanged ==
    [][(\E i \in 1..MaxCalls : ExportStep(i)) => scene' = scene]_vars

\* one export has returned with both artifacts generated from a frame that
\* holds layers, and one with the placeholder pair: both paths were taken
C12_Witness ==
    /\ \E i \in ExportCalls :
          /\ calls[i].at = "returned"
          /\ IsFrame(Resolved(i))
          /\ Len(Resolved(i).children) > 0
          /\ calls[i].posted = <<GeneratedPair(Resolved(i))>>
    /\ \E i \in ExportCalls :
          /\ calls[i].at = "returned"
          /\ calls[i].posted = <<PlaceholderPair>>

=============================================================================
